---- MODULE Spec2Model ----
(***************************************************************************)
(* A model of the execution core of snarkVM: the fee assembly pipeline     *)
(* (synthesizer/src/vm/execute_fee.rs), the process engine                 *)
(* (vm/compiler/src/process/mod.rs) and the transition output model        *)
(* (vm/compiler/src/ledger/transition/output/mod.rs).                      *)
(*                                                                         *)
(* The specifications share the variables: FeeSpec runs one call of        *)
(* execute_fee / execute_fee_raw step by step; Spec runs calls of          *)
(* Process::evaluate and Process::execute one after another against the    *)
(* circuit environment; ConcSpec interleaves two such calls; OutputSpec    *)
(* applies the methods of Output to sampled outputs.                       *)
(***************************************************************************)
EXTENDS Integers, Sequences, FiniteSets, TLC

VARIABLES
    fee,        \* the one call of execute_fee / execute_fee_raw
    circuit,    \* the circuit environment A (its variables and constraints)
    calls,      \* the calls of Process::evaluate / Process::execute, per caller
    ncalls,     \* the number of calls started so far
    output,     \* the Output the methods are applied to
    observed    \* the value the last method of Output returned

vars == <<fee, circuit, calls, ncalls, output, observed>>

None == "None"

\* The largest balance and fee amount drawn.
MaxAmount == 2
\* The largest number of inclusion assignments the inclusion collaborator prepares.
MaxAssignments == 2

(***************************************************************************)
(* Fee assembly pipeline: VM::execute_fee_raw and VM::execute_fee.         *)
(***************************************************************************)

\* The two bail! messages of the balance check.
InsufficientBalance == "Fee record does not have enough balance to pay the fee"
MalformedFeeRecord == "Fee record does not have microcredits"

\* What fee_record.find(&[microcredits]) can return: Err (no such entry), or an
\* entry of some visibility holding a plaintext, a literal of some type or a struct.
Visibilities == {"Constant", "Public", "Private"}
NumericLiterals == {"U64", "U32"}
FeeEntries ==
    {[found |-> FALSE, visibility |-> None, plaintext |-> None, literal |-> None, amount |-> 0]}
    \cup {[found |-> TRUE, visibility |-> v, plaintext |-> "Struct", literal |-> None, amount |-> 0] :
            v \in Visibilities}
    \cup {[found |-> TRUE, visibility |-> v, plaintext |-> "Literal", literal |-> "Boolean", amount |-> 0] :
            v \in Visibilities}
    \cup [found : {TRUE}, visibility : Visibilities, plaintext : {"Literal"},
          literal : NumericLiterals, amount : 0..MaxAmount]

\* balance_check with the comparison off by one (amount <= fee bails).
balance_check_off_by_one(entry, fee_in_microcredits) ==
    IF /\ entry.found
       /\ entry.visibility = "Private"
       /\ entry.plaintext = "Literal"
       /\ entry.literal = "U64"
    THEN IF entry.amount <= fee_in_microcredits THEN InsufficientBalance ELSE "Ok"
    ELSE MalformedFeeRecord

\* balance_check with the two messages exchanged.
balance_check_swapped(entry, fee_in_microcredits) ==
    IF /\ entry.found
       /\ entry.visibility = "Private"
       /\ entry.plaintext = "Literal"
       /\ entry.literal = "U64"
    THEN IF entry.amount < fee_in_microcredits THEN MalformedFeeRecord ELSE "Ok"
    ELSE InsufficientBalance

\* The match of lines 61-68: Ok(()) or the message of the bail! taken.
balance_check(entry, fee_in_microcredits) ==
    IF /\ entry.found
       /\ entry.visibility = "Private"
       /\ entry.plaintext = "Literal"
       /\ entry.literal = "U64"
    THEN IF entry.amount < fee_in_microcredits THEN InsufficientBalance ELSE "Ok"
    ELSE MalformedFeeRecord

\* The steps of execute_fee_raw in program order, then the step execute_fee adds.
FeeSteps_check_after_prepare ==
    <<"query", "prepare_fee", "balance", "inclusion", "root", "convert", "execute_fee",
      "return", "from_fee">>

FeeSteps ==
    <<"query", "balance", "prepare_fee", "inclusion", "root", "convert", "execute_fee",
      "return", "from_fee">>

StepIndex(step) == CHOOSE i \in 1..Len(FeeSteps) : FeeSteps[i] = step

\* The step that follows `step` when it succeeds.
FeeStepAfter(step) == FeeSteps[StepIndex(step) + 1]

\* The collaborator steps that do circuit work.
CircuitWork == {"prepare_fee", "inclusion", "root", "convert", "execute_fee"}

\* A Result not yet returned, an Err(error), an Ok(value), and a panic.
NoResult == [returned |-> FALSE, ok |-> FALSE, error |-> None, value |-> <<>>]
Err(error) == [returned |-> TRUE, ok |-> FALSE, error |-> error, value |-> <<>>]
Ok(value) == [returned |-> TRUE, ok |-> TRUE, error |-> None, value |-> value]
Panic(error) == [returned |-> FALSE, ok |-> FALSE, error |-> error, value |-> <<>>]

\* An Option<Vec<Assignment>>: None, or Some(list).
NoAssignments == [is_some |-> FALSE, list |-> <<>>]
SomeAssignments(list) == [is_some |-> TRUE, list |-> list]

FeeIdle ==
    [pc |-> "idle", api |-> None, fee_record |-> CHOOSE e \in FeeEntries : ~e.found,
     fee_in_microcredits |-> 0, query |-> None, resolved_query |-> None, log |-> <<>>,
     prepared |-> <<>>, inclusion_assignments |-> NoAssignments,
     passed |-> NoAssignments, fee_proof |-> None,
     result |-> NoResult]

\* The caller's arguments: the entry point, the fee record, the amount and the query.
FeeStart ==
    {[FeeIdle EXCEPT !.pc = FeeSteps[1], !.api = a, !.fee_record = e,
                     !.fee_in_microcredits = f, !.query = q] :
        a \in {"execute_fee", "execute_fee_raw"}, e \in FeeEntries,
        f \in 0..(MaxAmount + 1), q \in {"None", "Some"}}

NotFee == UNCHANGED <<circuit, calls, ncalls, output, observed>>

\* Lines 52-57: the query given, or the VM's block store.
PrepareQuery ==
    /\ fee.pc = "query"
    /\ fee' = [fee EXCEPT !.pc = FeeStepAfter("query"),
                          !.resolved_query = IF fee.query = "Some" THEN "Query" ELSE "Query::VM",
                          !.log = Append(@, "query")]
    /\ NotFee

\* Lines 59-68: the balance check.
BalanceCheck ==
    /\ fee.pc = "balance"
    /\ LET r == balance_check(fee.fee_record, fee.fee_in_microcredits) IN
        IF r = "Ok"
        THEN fee' = [fee EXCEPT !.pc = FeeStepAfter("balance"), !.log = Append(@, "balance")]
        ELSE fee' = [fee EXCEPT !.pc = "done", !.log = Append(@, "balance"),
                                !.result = Err(r)]
    /\ NotFee

\* Lines 80-83: $process.prepare_fee(..)?
ProcessPrepareFee ==
    /\ fee.pc = "prepare_fee"
    /\ \/ fee' = [fee EXCEPT !.pc = FeeStepAfter("prepare_fee"), !.log = Append(@, "prepare_fee")]
       \/ fee' = [fee EXCEPT !.pc = "done", !.log = Append(@, "prepare_fee"),
                             !.result = Err("prepare_fee failed")]
    /\ NotFee

\* Lines 85-91: inclusion.prepare_fee(fee_transition, query)?
InclusionPrepareFee ==
    /\ fee.pc = "inclusion"
    /\ \/ \E n \in 0..MaxAssignments :
            fee' = [fee EXCEPT !.pc = FeeStepAfter("inclusion"), !.log = Append(@, "inclusion"),
                               !.prepared = [i \in 1..n |-> [assignment |-> i]]]
       \/ fee' = [fee EXCEPT !.pc = "done", !.log = Append(@, "inclusion"),
                             !.result = Err("inclusion.prepare_fee failed")]
    /\ NotFee

\* Line 93: Inclusion::fee_global_state_root(inclusion_assignments)?
FeeGlobalStateRoot ==
    /\ fee.pc = "root"
    /\ \/ fee' = [fee EXCEPT !.pc = FeeStepAfter("root"), !.log = Append(@, "root")]
       \/ fee' = [fee EXCEPT !.pc = "done", !.log = Append(@, "root"),
                             !.result = Err("fee_global_state_root failed")]
    /\ NotFee

\* The converted list wrapped in Some whatever its length.
collapse_always_some(inclusion_assignments) == SomeAssignments(inclusion_assignments)

\* Lines 99-100: if inclusion_assignments.len() == 0 { None } else { Some(..) }.
collapse(inclusion_assignments) ==
    IF Len(inclusion_assignments) = 0 THEN NoAssignments
    ELSE SomeAssignments(inclusion_assignments)

\* Lines 95-100: every assignment converted (unwrap panics on a failure), and an
\* empty list collapsed to None.
ToCircuitAssignments ==
    /\ fee.pc = "convert"
    /\ \/ LET converted == [i \in 1..Len(fee.prepared) |->
                               [circuit_assignment |-> fee.prepared[i].assignment]] IN
          fee' = [fee EXCEPT !.pc = FeeStepAfter("convert"), !.log = Append(@, "convert"),
                             !.inclusion_assignments = collapse(converted)]
       \/ /\ Len(fee.prepared) > 0
          /\ fee' = [fee EXCEPT !.pc = "panicked", !.log = Append(@, "convert"),
                                !.result = Panic("to_circuit_assignment unwrap")]
    /\ NotFee

\* Lines 103-112: the draft Fee, then $process.execute_fee(&mut fee, ..)?
ProcessExecuteFee ==
    /\ fee.pc = "execute_fee"
    /\ \/ fee' = [fee EXCEPT !.pc = FeeStepAfter("execute_fee"), !.log = Append(@, "execute_fee"),
                             !.passed = fee.inclusion_assignments, !.fee_proof = "proved"]
       \/ fee' = [fee EXCEPT !.pc = "done", !.log = Append(@, "execute_fee"),
                             !.passed = fee.inclusion_assignments,
                             !.result = Err("execute_fee failed")]
    /\ NotFee

\* Lines 114-120: Ok((response, fee, metrics)); execute_fee goes on with the fee.
ReturnFee ==
    /\ fee.pc = "return"
    /\ IF fee.api = "execute_fee_raw"
       THEN fee' = [fee EXCEPT !.pc = "done",
                               !.result = Ok(<<"response", "fee", "metrics">>)]
       ELSE fee' = [fee EXCEPT !.pc = FeeStepAfter("return")]
    /\ NotFee

\* Lines 34-36: Transaction::from_fee(fee).
TransactionFromFee ==
    /\ fee.pc = "from_fee"
    /\ \/ fee' = [fee EXCEPT !.pc = "done", !.result = Ok(<<"transaction">>)]
       \/ fee' = [fee EXCEPT !.pc = "done",
                             !.result = Err("from_fee failed")]
    /\ NotFee

FeeNext ==
    \/ PrepareQuery
    \/ BalanceCheck
    \/ ProcessPrepareFee
    \/ InclusionPrepareFee
    \/ FeeGlobalStateRoot
    \/ ToCircuitAssignments
    \/ ProcessExecuteFee
    \/ ReturnFee
    \/ TransactionFromFee

FeeInit ==
    /\ fee \in FeeStart
    /\ circuit = <<>>
    /\ calls = <<>>
    /\ ncalls = 0
    /\ output = None
    /\ observed = None

FeeSpec == FeeInit /\ [][FeeNext]_vars

(***************************************************************************)
(* Process engine: Process::evaluate and Process::execute.                 *)
(***************************************************************************)

\* The most calls of evaluate / execute started in one behaviour.
MaxCalls == 2
\* The number of callers running at once under ConcSpec.
Threads == 2
\* `as u16` keeps the value modulo 2^16.
U16Modulus == 65536

\* The errors of the three preconditions and of the record branch.
InvalidRequest == "Request is invalid"
FunctionNotFound == "get_function: function not found"
ArityMismatch == "Expected {} inputs, found {num_inputs}"
TypeMismatch == "Expected a record input, found a plaintext input"

Plaintext(v) == [shape |-> "Plaintext", v |-> v]
Record(v) == [shape |-> "Record", v |-> v]

\* The program the process holds: each function's declared input count and the
\* value types of its outputs. compute is the function of test_process_execute_call;
\* publish has a constant and a public output; wide declares as many inputs as a
\* u16 can count.
Program ==
    [compute |-> [inputs |-> 3, outputs |-> <<"Record", "Private", "Private", "Private">>],
     publish |-> [inputs |-> 1, outputs |-> <<"Constant", "Public">>],
     wide    |-> [inputs |-> U16Modulus - 1, outputs |-> <<"Private", "Private">>]]

\* A request: whether request.verify() holds, the function named, the leading
\* inputs written out, the number of further inputs (`more`) and the tvk.
NumInputs(request) == Len(request.inputs) + request.more

Requests ==
    [valid : BOOLEAN, function_name : {"compute"},
     inputs : {<<Plaintext(3), Plaintext(5), Record(7)>>, <<Plaintext(3), Plaintext(5)>>},
     more : {0}, tvk : {"tvk"}]
    \cup [valid : BOOLEAN, function_name : {"publish"},
          inputs : {<<Plaintext(3)>>, <<>>}, more : {0}, tvk : {"tvk"}]
    \cup [valid : BOOLEAN, function_name : {"wide"},
          inputs : {<<Plaintext(3), Plaintext(5)>>}, more : {U16Modulus - 3}, tvk : {"tvk"}]
    \cup [valid : BOOLEAN, function_name : {"absent"},
          inputs : {<<Plaintext(3)>>}, more : {0}, tvk : {"tvk"}]

\* Lines 36-47 of evaluate: the first failing precondition, or "Ok".
evaluate_checks(request) ==
    IF ~request.valid THEN InvalidRequest
    ELSE IF request.function_name \notin DOMAIN Program THEN FunctionNotFound
    ELSE IF Program[request.function_name].inputs # NumInputs(request) THEN ArityMismatch
    ELSE "Ok"

\* execute_checks with the function looked up before the request is verified.
execute_checks_lookup_first(request) ==
    IF request.function_name \notin DOMAIN Program THEN FunctionNotFound
    ELSE IF ~request.valid THEN InvalidRequest
    ELSE IF Program[request.function_name].inputs # NumInputs(request) THEN ArityMismatch
    ELSE "Ok"

\* Lines 74-85 of execute: the first failing precondition, or "Ok".
execute_checks(request) ==
    IF ~request.valid THEN InvalidRequest
    ELSE IF request.function_name \notin DOMAIN Program THEN FunctionNotFound
    ELSE IF Program[request.function_name].inputs # NumInputs(request) THEN ArityMismatch
    ELSE "Ok"

\* Field elements are terms, written as sequences of strings.
Bits(value) == <<"to_bits_le", value.shape, ToString(value.v)>>
hash_bhp1024(bits) == <<"hash_bhp1024", "(">> \o bits \o <<")">>
hash_to_scalar_psd2(tvk, index) == <<"hash_to_scalar_psd2", "(">> \o tvk \o index \o <<")">>
commit_bhp1024(bits, randomizer) == <<"commit_bhp1024", "(">> \o bits \o randomizer \o <<")">>
to_commitment(record, randomizer) ==
    <<"to_commitment", "(", ToString(record.v)>> \o randomizer \o <<")">>
g_scalar_multiply_x(randomizer) == <<"g_scalar_multiply.to_x_coordinate", "(">> \o randomizer \o <<")">>
encrypt(record, randomizer) == <<"encrypt", "(", ToString(record.v)>> \o randomizer \o <<")">>

\* The entries of the circuit environment: an injected variable (Inject::new) and
\* an equality constraint (A::assert_eq, A::assert), each tagged with the call
\* that made it, the output position it belongs to (0 for the request) and, for
\* a variable, where the injected value was taken from.
New(mode, value, src, role, out, call) ==
    [kind |-> "new", mode |-> mode, lhs |-> value, rhs |-> <<>>, src |-> src,
     role |-> role, out |-> out, call |-> call]
AssertEq(lhs, rhs, role, out, call) ==
    [kind |-> "assert_eq", mode |-> None, lhs |-> lhs, rhs |-> rhs, src |-> None,
     role |-> role, out |-> out, call |-> call]
\* The constraints the Stack adds while it executes the function in the circuit.
StackGadget(function_name, call) ==
    [kind |-> "execute_function", mode |-> None, lhs |-> <<function_name>>, rhs |-> <<>>,
     src |-> None, role |-> "function", out |-> 0, call |-> call]

\* Lines 161 and 193: (num_inputs + index) as u16, index counted from 0.
output_index(num_inputs, index) == (num_inputs + index) % U16Modulus

\* Lines 95-102: tvk injected as public, the request as private, and the two
\* assertions on them.
RequestEntries(request, call) ==
    <<New("Public", <<request.tvk>>, "request", "tvk", 0, call),
      New("Private", <<"request", request.function_name>>, "request", "request", 0, call),
      AssertEq(<<request.tvk>>, <<request.tvk>>, "tvk", 0, call),
      AssertEq(<<ToString(request.valid)>>, <<ToString(TRUE)>>, "request.verify", 0, call)>>

\* The randomizer of lines 161-165 and 193-197 for the output at `index` (from 0).
Randomizer(request, num_inputs, index) ==
    hash_to_scalar_psd2(<<request.tvk>>, <<ToString(output_index(num_inputs, index))>>)

IndexEntry(num_inputs, index, out, call) ==
    New("Private", <<ToString(output_index(num_inputs, index))>>, "computed", "output_index",
        out, call)

\* Lines 124-228: what one output adds to the circuit, by its declared type.
\* `out` is the output's position counted from 1; its index in the code is out - 1.
OutputEntries(type, value, request, num_inputs, out, call) ==
    LET index == out - 1
        randomizer == Randomizer(request, num_inputs, index)
    IN
    CASE type = "Constant" ->
            LET output_hash == hash_bhp1024(Bits(value)) IN
            <<New("Constant", output_hash, "ejected", "hash", out, call),
              AssertEq(output_hash, output_hash, "hash", out, call)>>
      [] type = "Public" ->
            LET output_hash == hash_bhp1024(Bits(value)) IN
            <<New("Public", output_hash, "ejected", "hash", out, call),
              AssertEq(output_hash, output_hash, "hash", out, call)>>
      [] type = "Private" ->
            LET commitment == commit_bhp1024(Bits(value), randomizer) IN
            <<IndexEntry(num_inputs, index, out, call),
              New("Public", commitment, "ejected", "commitment", out, call),
              AssertEq(commitment, commitment, "commitment", out, call)>>
      [] type = "Record" ->
            LET commitment == to_commitment(value, randomizer)
                nonce == g_scalar_multiply_x(randomizer)
                checksum == hash_bhp1024(encrypt(value, randomizer))
            IN
            <<IndexEntry(num_inputs, index, out, call),
              New("Public", commitment, "ejected", "commitment", out, call),
              AssertEq(commitment, commitment, "commitment", out, call),
              New("Public", nonce, "ejected", "nonce", out, call),
              AssertEq(nonce, nonce, "nonce", out, call),
              New("Public", checksum, "ejected", "checksum", out, call),
              AssertEq(checksum, checksum, "checksum", out, call)>>

\* OutputLeaf with the nonce of a record output in place of its commitment.
OutputLeaf_record_nonce(type, value, request, num_inputs, out) ==
    LET randomizer == Randomizer(request, num_inputs, out - 1) IN
    CASE type \in {"Constant", "Public"} -> hash_bhp1024(Bits(value))
      [] type = "Private" -> commit_bhp1024(Bits(value), randomizer)
      [] type = "Record" -> g_scalar_multiply_x(randomizer)

\* The leaf trace.add_output is given for one output: its hash or its commitment.
OutputLeaf(type, value, request, num_inputs, out) ==
    LET randomizer == Randomizer(request, num_inputs, out - 1) IN
    CASE type \in {"Constant", "Public"} -> hash_bhp1024(Bits(value))
      [] type = "Private" -> commit_bhp1024(Bits(value), randomizer)
      [] type = "Record" -> to_commitment(value, randomizer)


\* The trace of one call: New(request), then add_output per leaf, then finalize.
\* add_output and finalize fail once the trace is finalized.
Trace_new(request) ==
    [ok |-> TRUE, ops |-> <<"new">>, leaves |-> <<>>, finalized |-> FALSE]
NoTrace == [ok |-> TRUE, ops |-> <<>>, leaves |-> <<>>, finalized |-> FALSE]
add_output(trace, leaf) ==
    IF trace.finalized
    THEN [trace EXCEPT !.ok = FALSE, !.ops = Append(@, "add_output")]
    ELSE [trace EXCEPT !.ops = Append(@, "add_output"), !.leaves = Append(@, leaf)]
finalize(trace) ==
    IF trace.finalized
    THEN [trace EXCEPT !.ok = FALSE, !.ops = Append(@, "finalize")]
    ELSE [trace EXCEPT !.ops = Append(@, "finalize"), !.finalized = TRUE]

\* closure execute with r4 computed as r0 + r3.
closure_execute_short(r0, r1) ==
    LET r2 == r0 + r1
        r3 == r0 + r2
        r4 == r0 + r3
    IN  <<r4, r3, r2>>

\* Lines 285-293, closure execute: add r0 r1 into r2; add r0 r2 into r3;
\* add r2 r3 into r4; output r4, r3, r2. The inputs are small enough for field
\* addition not to wrap.
closure_execute(r0, r1) ==
    LET r2 == r0 + r1
        r3 == r0 + r2
        r4 == r2 + r3
    IN  <<r4, r3, r2>>

\* What the function computes from the inputs, one value per declared output:
\* compute (lines 295-303) calls execute r0 r1 into r3 r4 r5 and outputs r2, r3,
\* r4, r5.
StackOutputs(request) ==
    LET in == request.inputs IN
    CASE request.function_name = "compute" ->
            LET r == closure_execute(in[1].v, in[2].v) IN
            <<in[3], Plaintext(r[1]), Plaintext(r[2]), Plaintext(r[3])>>
      [] request.function_name = "publish" -> <<in[1], in[1]>>
      [] request.function_name = "wide" -> <<in[1], in[2]>>

\* The circuit values execute_function may hand back: those of StackOutputs,
\* where the circuit value for a record output may come plaintext-shaped.
StackResults(request) ==
    LET base == StackOutputs(request)
        types == Program[request.function_name].outputs
    IN {outs \in [1..Len(base) -> {Plaintext(base[i].v) : i \in 1..Len(base)}
                                   \cup {base[i] : i \in 1..Len(base)}] :
            \A i \in 1..Len(base) :
                \/ outs[i] = base[i]
                \/ types[i] = "Record" /\ outs[i] = Plaintext(base[i].v)}

\* Response::new(num_inputs, tvk, outputs, &output_types).
NoResponse == [num_inputs |-> 0, tvk |-> None, outputs |-> <<>>, output_types |-> <<>>]
Response_new(num_inputs, tvk, outputs, output_types) ==
    [num_inputs |-> num_inputs, tvk |-> tvk, outputs |-> outputs, output_types |-> output_types]

\* The locals of one call. at_entry keeps the circuit environment the call found
\* when it was entered.
IdleCall ==
    [pc |-> "idle", op |-> None, id |-> 0, at_entry |-> <<>>, response |-> NoResponse,
     request |-> [valid |-> FALSE, function_name |-> "absent", inputs |-> <<>>, more |-> 0,
                  tvk |-> "tvk"],
     num_inputs |-> 0, trace |-> NoTrace, stack_calls |-> 0, outputs |-> <<>>, index |-> 0,
     result |-> NoResult]

NotProcess == UNCHANGED <<fee, output, observed>>

\* evaluate, lines 34-50, and execute, lines 72-88: the caller enters with a
\* request; the preconditions are checked and the trace is initialised.
Call(c) ==
    /\ calls[c].pc \in {"idle", "done"}
    /\ ncalls < MaxCalls
    /\ \E op \in {"evaluate", "execute"}, request \in Requests :
        LET check == IF op = "execute" THEN execute_checks(request)
                     ELSE evaluate_checks(request)
            entered == [IdleCall EXCEPT !.op = op, !.id = ncalls + 1, !.request = request,
                                        !.at_entry = circuit]
        IN
        calls' = [calls EXCEPT ![c] =
            IF check # "Ok"
            THEN [entered EXCEPT !.pc = "done", !.result = Err(check)]
            ELSE [entered EXCEPT !.pc = IF op = "execute" THEN "reset" ELSE "stack",
                                 !.num_inputs = NumInputs(request),
                                 !.trace = Trace_new(request)]]
    /\ ncalls' = ncalls + 1
    /\ UNCHANGED circuit
    /\ NotProcess

\* The circuit environment after A::reset() with the reset left out.
reset_nothing(env) == env

\* Line 91: A::reset() empties the circuit environment.
reset(env) == <<>>

Reset(c) ==
    /\ calls[c].pc = "reset"
    /\ circuit' = reset(circuit)
    /\ calls' = [calls EXCEPT ![c].pc = "inject"]
    /\ UNCHANGED ncalls
    /\ NotProcess

\* Lines 95-102.
Inject(c) ==
    /\ calls[c].pc = "inject"
    /\ circuit' = circuit \o RequestEntries(calls[c].request, calls[c].id)
    /\ calls' = [calls EXCEPT ![c].pc = "stack"]
    /\ UNCHANGED ncalls
    /\ NotProcess

\* Lines 52-55 and 107-110: Stack::new(..)? and evaluate_function / execute_function;
\* execute_function builds the function's constraints in the circuit environment.
StackCall(c) ==
    /\ calls[c].pc = "stack"
    /\ \/ /\ calls' = [calls EXCEPT ![c].pc = "done", ![c].stack_calls = @ + 1,
                                    ![c].result = Err("Stack failed")]
          /\ UNCHANGED circuit
       \/ \E outs \in IF calls[c].op = "execute" THEN StackResults(calls[c].request)
                        ELSE {StackOutputs(calls[c].request)} :
            /\ calls' = [calls EXCEPT
                    ![c].pc = IF calls[c].op = "evaluate" THEN "response" ELSE "outputs",
                    ![c].stack_calls = @ + 1,
                    ![c].outputs = outs]
            /\ circuit' = IF calls[c].op = "execute"
                          THEN Append(circuit,
                                      StackGadget(calls[c].request.function_name, calls[c].id))
                          ELSE circuit
    /\ UNCHANGED ncalls
    /\ NotProcess

\* after_output leaving the loop for trace.finalize() after the first output.
after_output_first_only(out, num_outputs) == "finalize"

\* Lines 120 and 231-234: try_for_each goes on to the next output, and
\* trace.finalize() follows the last one.
after_output(out, num_outputs) == IF out = num_outputs THEN "finalize" ELSE "outputs"

\* Lines 121-231: one round of the loop over the outputs and their types.
LoadOutput(c) ==
    /\ calls[c].pc = "outputs"
    /\ LET call == calls[c]
           out == call.index + 1
           type == Program[call.request.function_name].outputs[out]
           value == call.outputs[out]
           added == add_output(call.trace,
                               OutputLeaf(type, value, call.request, call.num_inputs, out))
       IN
       IF type = "Record" /\ value.shape # "Record"
       THEN /\ calls' = [calls EXCEPT ![c].pc = "done", ![c].result = Err(TypeMismatch)]
            /\ UNCHANGED circuit
       ELSE /\ circuit' = circuit \o OutputEntries(type, value, call.request, call.num_inputs,
                                                   out, call.id)
            /\ calls' = [calls EXCEPT
                    ![c].trace = added,
                    ![c].index = out,
                    ![c].pc = IF ~added.ok THEN "done"
                              ELSE after_output(out, Len(call.outputs)),
                    ![c].result = IF ~added.ok THEN Err("add_output failed") ELSE @]
    /\ UNCHANGED ncalls
    /\ NotProcess

\* Lines 57-60 of evaluate: Response::new(num_inputs, tvk, outputs, &output_types)?
Respond(c) ==
    /\ calls[c].pc = "response"
    /\ \/ calls' = [calls EXCEPT
                ![c].pc = "finalize",
                ![c].response =
                    Response_new(calls[c].num_inputs, calls[c].request.tvk, calls[c].outputs,
                                 Program[calls[c].request.function_name].outputs)]
       \/ calls' = [calls EXCEPT ![c].pc = "done", ![c].result = Err("Response::new failed")]
    /\ UNCHANGED <<circuit, ncalls>>
    /\ NotProcess

\* Lines 62-67 and 233-238: trace.finalize()?, then Ok(response) or Ok(outputs).
Finalize(c) ==
    /\ calls[c].pc = "finalize"
    /\ LET finalized == finalize(calls[c].trace) IN
       calls' = [calls EXCEPT
            ![c].trace = finalized,
            ![c].pc = "done",
            ![c].result = IF ~finalized.ok THEN Err("finalize failed")
                          ELSE IF calls[c].op = "evaluate" THEN Ok(<<calls[c].response>>)
                          ELSE Ok(calls[c].outputs)]
    /\ UNCHANGED <<circuit, ncalls>>
    /\ NotProcess

Next ==
    \/ \E c \in DOMAIN calls : Call(c)
    \/ \E c \in DOMAIN calls : Reset(c)
    \/ \E c \in DOMAIN calls : Inject(c)
    \/ \E c \in DOMAIN calls : StackCall(c)
    \/ \E c \in DOMAIN calls : LoadOutput(c)
    \/ \E c \in DOMAIN calls : Respond(c)
    \/ \E c \in DOMAIN calls : Finalize(c)

ProcessInit(threads) ==
    /\ circuit = <<>>
    /\ calls = [c \in 1..threads |-> IdleCall]
    /\ ncalls = 0
    /\ fee = FeeIdle
    /\ output = None
    /\ observed = None

\* One caller: the calls run one after another.
Init == ProcessInit(1)

Spec == Init /\ [][Next]_vars

\* Two callers, whose calls interleave.
ConcInit == ProcessInit(Threads)

ConcSpec == ConcInit /\ [][Next]_vars

(***************************************************************************)
(* Output model: the methods of Output.                                    *)
(***************************************************************************)

\* The largest field element sampled for an id or a checksum.
MaxField == 2

\* An Option is a sequence of at most one element.
Some(x) == <<x>>
NoValue == <<>>

\* The five variants. `id` is the first field (the commitment of a Record),
\* `checksum` the second field of a Record, `value` the optional payload.
Variants == <<"Constant", "Public", "Private", "Record", "ExternalRecord">>

\* The payloads: 1..MaxField hash to a field element, MaxField + 1 is a payload
\* whose bits the hash function rejects.
Payloads == 1..(MaxField + 1)

Outputs ==
    [variant : {"Constant", "Public", "Private"}, id : 1..MaxField, checksum : {0},
     value : {NoValue} \cup {Some(b) : b \in Payloads}]
    \cup [variant : {"Record"}, id : 1..MaxField, checksum : 1..MaxField,
          value : {NoValue} \cup {Some(b) : b \in Payloads}]
    \cup [variant : {"ExternalRecord"}, id : 1..MaxField, checksum : {0}, value : {NoValue}]

\* Lines 46-54.
variant(o) == CHOOSE i \in 0..4 : Variants[i + 1] = o.variant

\* Lines 57-65.
id(o) == o.id

\* checksum returning the checksum only when the record payload is present.
checksum_if_payload(o) ==
    IF o.variant = "Record" /\ o.value # NoValue THEN Some(o.checksum) ELSE NoValue

\* Lines 118-123: Output::Record(_, checksum, ..) => Some(checksum), _ => None.
checksum(o) == IF o.variant = "Record" THEN Some(o.checksum) ELSE NoValue

\* Lines 69-74: Output::Record(commitment, _, Some(record)) =>
\* Some((commitment, record)), _ => None.
record(o) ==
    IF o.variant = "Record" /\ o.value # NoValue
    THEN Some(<<o.id, o.value[1]>>) ELSE NoValue

\* Lines 78-83: the consuming form of record.
into_record(o) ==
    IF o.variant = "Record" /\ o.value # NoValue
    THEN Some(<<o.id, o.value[1]>>) ELSE NoValue

\* commitment returning the commitment only when the record payload is present.
commitment_if_payload(o) ==
    IF o.variant = "Record" /\ o.value # NoValue THEN Some(o.id) ELSE NoValue

\* Lines 86-91: Output::Record(commitment, ..) => Some(commitment), _ => None.
commitment(o) == IF o.variant = "Record" THEN Some(o.id) ELSE NoValue

\* Lines 94-99: the consuming form of commitment.
into_commitment(o) == IF o.variant = "Record" THEN Some(o.id) ELSE NoValue

\* Lines 102-107: Output::Record(_, _, Some(record)) => Some(record.nonce()),
\* _ => None. The nonce is a projection of the record payload.
nonce(o) ==
    IF o.variant = "Record" /\ o.value # NoValue
    THEN Some(<<"nonce", o.value[1]>>) ELSE NoValue

\* Lines 110-115: the consuming form of nonce.
into_nonce(o) ==
    IF o.variant = "Record" /\ o.value # NoValue
    THEN Some(<<"nonce", o.value[1]>>) ELSE NoValue

\* Lines 126-131: the consuming form of checksum.
into_checksum(o) == IF o.variant = "Record" THEN Some(o.checksum) ELSE NoValue

\* Lines 134-139: the id, chained with the checksum if it exists.
verifier_inputs(o) == <<id(o)>> \o checksum(o)

\* Lines 146, 150, 154, 158: N::hash_bhp1024(&value.to_bits_le()), a Result.
\* The hash is collision-free on the payloads it accepts and fails on the
\* payload beyond MaxField.
candidate_hash(value) ==
    IF value > MaxField
    THEN Err("hash_bhp1024 failed")
    ELSE Ok(<<(value % MaxField) + 1>>)

\* verify comparing the hash of a record payload with the commitment.
verify_against_commitment(o) ==
    LET result ==
            IF o.variant \in {"Constant", "Public", "Private", "Record"} /\ o.value # NoValue
            THEN LET hashed == candidate_hash(o.value[1])
                 IN  IF hashed.ok THEN Ok(<<o.id = hashed.value[1]>>)
                     ELSE Err(hashed.error)
            ELSE Ok(<<TRUE>>)
    IN  IF result.ok THEN result.value[1] ELSE FALSE

\* Lines 143-172: the hash of the payload, if the payload exists, is compared
\* with the stored hash (Constant, Public, Private) or the stored checksum
\* (Record); every other output gives Ok(true); an Err is printed and gives
\* false.
verify(o) ==
    LET result ==
            IF o.variant \in {"Constant", "Public", "Private"} /\ o.value # NoValue
            THEN LET hashed == candidate_hash(o.value[1])
                 IN  IF hashed.ok THEN Ok(<<o.id = hashed.value[1]>>)
                     ELSE Err(hashed.error)
            ELSE IF o.variant = "Record" /\ o.value # NoValue
            THEN LET hashed == candidate_hash(o.value[1])
                 IN  IF hashed.ok THEN Ok(<<o.checksum = hashed.value[1]>>)
                     ELSE Err(hashed.error)
            ELSE Ok(<<TRUE>>)
    IN  IF result.ok THEN result.value[1] ELSE FALSE

NoObservation == [method |-> None, value |-> <<>>]

NotOutput == UNCHANGED <<fee, circuit, calls, ncalls, output>>

CallVariant ==
    /\ observed' = [method |-> "variant", value |-> <<variant(output)>>]
    /\ NotOutput

CallId ==
    /\ observed' = [method |-> "id", value |-> <<id(output)>>]
    /\ NotOutput

CallRecord ==
    /\ observed' = [method |-> "record", value |-> record(output)]
    /\ NotOutput

CallIntoRecord ==
    /\ observed' = [method |-> "into_record", value |-> into_record(output)]
    /\ NotOutput

CallCommitment ==
    /\ observed' = [method |-> "commitment", value |-> commitment(output)]
    /\ NotOutput

CallIntoCommitment ==
    /\ observed' = [method |-> "into_commitment", value |-> into_commitment(output)]
    /\ NotOutput

CallNonce ==
    /\ observed' = [method |-> "nonce", value |-> nonce(output)]
    /\ NotOutput

CallIntoNonce ==
    /\ observed' = [method |-> "into_nonce", value |-> into_nonce(output)]
    /\ NotOutput

CallChecksum ==
    /\ observed' = [method |-> "checksum", value |-> checksum(output)]
    /\ NotOutput

CallIntoChecksum ==
    /\ observed' = [method |-> "into_checksum", value |-> into_checksum(output)]
    /\ NotOutput

CallVerifierInputs ==
    /\ observed' = [method |-> "verifier_inputs", value |-> verifier_inputs(output)]
    /\ NotOutput

CallVerify ==
    /\ observed' = [method |-> "verify", value |-> <<verify(output)>>]
    /\ NotOutput

OutputNext ==
    \/ CallVariant
    \/ CallId
    \/ CallRecord
    \/ CallIntoRecord
    \/ CallCommitment
    \/ CallIntoCommitment
    \/ CallNonce
    \/ CallIntoNonce
    \/ CallChecksum
    \/ CallIntoChecksum
    \/ CallVerifierInputs
    \/ CallVerify

OutputInit ==
    /\ output \in Outputs
    /\ observed = NoObservation
    /\ fee = FeeIdle
    /\ circuit = <<>>
    /\ calls = <<>>
    /\ ncalls = 0

OutputSpec == OutputInit /\ [][OutputNext]_vars

(***************************************************************************)
(* Properties of the fee assembly pipeline.                                *)
(***************************************************************************)

\* The entry the balance check accepts: a private u64 literal.
IsPrivateU64(entry) ==
    /\ entry.found
    /\ entry.visibility = "Private"
    /\ entry.plaintext = "Literal"
    /\ entry.literal = "U64"

\* The entry holds a numeric literal, of any numeric type and visibility.
IsNumeric(entry) ==
    /\ entry.found
    /\ entry.plaintext = "Literal"
    /\ entry.literal \in NumericLiterals

BalanceErrors == {InsufficientBalance, MalformedFeeRecord}

\* The call has returned and no collaborator step failed on the way.
FeeReturnedNoCollaboratorFailure ==
    /\ fee.pc = "done"
    /\ fee.result.ok \/ fee.result.error \in BalanceErrors

\* C1 (as amended): for a fee record whose microcredits entry is a private u64
\* literal B and a requested fee F, when no collaborator step fails the call
\* succeeds if and only if F <= B, and a failure is InsufficientBalance; so F = B
\* succeeds and F = B + 1 fails with InsufficientBalance.
C1_FeeSucceedsIffCovered ==
    (FeeReturnedNoCollaboratorFailure /\ IsPrivateU64(fee.fee_record)) =>
        /\ fee.result.ok <=> (fee.fee_in_microcredits <= fee.fee_record.amount)
        /\ ~fee.result.ok => fee.result.error = InsufficientBalance

\* A call that succeeded with the fee equal to the balance.
C1_Witness ==
    /\ fee.pc = "done"
    /\ fee.result.ok
    /\ IsPrivateU64(fee.fee_record)
    /\ fee.fee_record.amount = MaxAmount
    /\ fee.fee_in_microcredits = fee.fee_record.amount

\* C1 as stated: for every record whose microcredits entry holds a numeric
\* balance B, the call succeeds if and only if F <= B.
C1_Original ==
    (FeeReturnedNoCollaboratorFailure /\ IsNumeric(fee.fee_record)) =>
        /\ fee.result.ok <=> (fee.fee_in_microcredits <= fee.fee_record.amount)
        /\ ~fee.result.ok => fee.result.error = InsufficientBalance

\* C2: the balance check comes before any circuit work: when the balance check
\* fails no collaborator doing circuit work has been invoked, and a collaborator
\* doing circuit work is only ever invoked after the balance check has passed.
C2_BalanceCheckBeforeCircuitWork ==
    /\ (fee.result.returned /\ ~fee.result.ok /\ fee.result.error \in BalanceErrors) =>
            \A i \in 1..Len(fee.log) : fee.log[i] \notin CircuitWork
    /\ \A i \in 1..Len(fee.log) :
            fee.log[i] \in CircuitWork =>
                /\ \E j \in 1..(i - 1) : fee.log[j] = "balance"
                /\ IsPrivateU64(fee.fee_record)
                /\ fee.fee_in_microcredits <= fee.fee_record.amount

\* A call the balance check ended.
C2_Witness ==
    /\ fee.pc = "done"
    /\ ~fee.result.ok
    /\ fee.result.error = InsufficientBalance
    /\ fee.log = <<"query", "balance">>

\* C3 (as amended): an entry that is absent or is not a private u64 literal fails
\* with MalformedFeeRecord; a private u64 literal less than the fee fails with
\* InsufficientBalance, never with MalformedFeeRecord; the two errors differ.
C3_BalanceCheckClassifies ==
    (fee.pc = "done" /\ "balance" \in {fee.log[i] : i \in 1..Len(fee.log)}) =>
        /\ ~IsPrivateU64(fee.fee_record) =>
                ~fee.result.ok /\ fee.result.error = MalformedFeeRecord
        /\ (IsPrivateU64(fee.fee_record)
                /\ fee.fee_record.amount < fee.fee_in_microcredits) =>
                ~fee.result.ok /\ fee.result.error = InsufficientBalance
        /\ InsufficientBalance # MalformedFeeRecord

\* A private u64 balance one short of the fee, ended with InsufficientBalance.
C3_Witness ==
    /\ fee.pc = "done"
    /\ IsPrivateU64(fee.fee_record)
    /\ fee.fee_in_microcredits = fee.fee_record.amount + 1
    /\ ~fee.result.ok
    /\ fee.result.error = InsufficientBalance

\* C3 as stated: absent or not numeric fails with MalformedFeeRecord; present and
\* numeric but less than the fee fails with InsufficientBalance.
C3_Original ==
    (fee.pc = "done" /\ "balance" \in {fee.log[i] : i \in 1..Len(fee.log)}) =>
        /\ ~IsNumeric(fee.fee_record) =>
                ~fee.result.ok /\ fee.result.error = MalformedFeeRecord
        /\ (IsNumeric(fee.fee_record)
                /\ fee.fee_record.amount < fee.fee_in_microcredits) =>
                ~fee.result.ok /\ fee.result.error = InsufficientBalance
        /\ InsufficientBalance # MalformedFeeRecord

\* The proving-backend step has been invoked.
BackendInvoked == \E i \in 1..Len(fee.log) : fee.log[i] = "execute_fee"

\* C13: the inclusion assignments handed to the proving-backend step are None
\* exactly when the inclusion collaborator prepared an empty list; otherwise
\* they are Some of one converted assignment per prepared assignment, in the
\* same order; Some of an empty list is never handed over.
C13_EmptyCollapsesToNone ==
    BackendInvoked =>
        /\ fee.passed.is_some <=> Len(fee.prepared) > 0
        /\ ~(fee.passed.is_some /\ fee.passed.list = <<>>)
        /\ Len(fee.passed.list) = Len(fee.prepared)
        /\ \A i \in 1..Len(fee.prepared) :
               fee.passed.list[i].circuit_assignment = fee.prepared[i].assignment

\* The backend was invoked with None after the inclusion collaborator prepared
\* an empty list.
C13_Witness ==
    /\ BackendInvoked
    /\ Len(fee.prepared) = 0
    /\ fee.passed = NoAssignments

\* The call of execute_fee_raw / execute_fee has come to its end.
FeeEnded == fee.pc \in {"done", "panicked"}

\* C17: every failure of a step of execute_fee_raw ends the call with an error
\* value returned to the caller and without a response, Fee or metrics; a
\* successful return comes only after the proving-backend step has run and
\* populated the proof of the draft Fee.
C17_FailuresReturnErrors ==
    FeeEnded =>
        /\ fee.result.returned
        /\ ~fee.result.ok => (fee.result.error # None /\ fee.result.value = <<>>)
        /\ fee.result.ok => (BackendInvoked /\ fee.fee_proof = "proved")

(***************************************************************************)
(* Properties of the process engine.                                       *)
(***************************************************************************)

\* The first precondition the request fails, in the order (1) request.verify(),
\* (2) the function exists, (3) the input counts agree; None when all three hold.
FirstFailedPrecondition(request) ==
    CASE ~request.valid -> InvalidRequest
      [] request.valid /\ request.function_name \notin DOMAIN Program -> FunctionNotFound
      [] /\ request.valid
         /\ request.function_name \in DOMAIN Program
         /\ Program[request.function_name].inputs # Len(request.inputs) + request.more
         -> ArityMismatch
      [] OTHER -> None

PreconditionErrors == {InvalidRequest, FunctionNotFound, ArityMismatch}

\* C4: evaluate and execute apply the same three preconditions in the same order;
\* a call whose request fails one ends with the error of the first that fails,
\* without invoking the Stack, adding a trace leaf or returning a value, and a
\* call whose request passes all three never ends with one of these errors.
C4_PreconditionsInOrder ==
    \A c \in DOMAIN calls :
        calls[c].pc # "idle" =>
            LET failed == FirstFailedPrecondition(calls[c].request) IN
            /\ failed # None =>
                    /\ calls[c].pc = "done"
                    /\ calls[c].result = Err(failed)
                    /\ calls[c].stack_calls = 0
                    /\ calls[c].trace.leaves = <<>>
                    /\ calls[c].outputs = <<>>
            /\ failed = None => calls[c].result.error \notin PreconditionErrors

\* An execute call on a missing function with an unverifiable request: the
\* first check in order decides.
C4_Witness ==
    \E c \in DOMAIN calls :
        /\ calls[c].pc = "done"
        /\ calls[c].op = "execute"
        /\ ~calls[c].request.valid
        /\ calls[c].request.function_name \notin DOMAIN Program
        /\ calls[c].result = Err(InvalidRequest)

\* The injected expected values of the output assertions.
IsExpectedValue(e) ==
    e.kind = "new" /\ e.role \in {"hash", "commitment", "nonce", "checksum"}

\* C5: in execute the expected value of every output assertion is supplied from
\* outside the recomputation it is compared with (so that an inconsistent one
\* leaves the circuit unsatisfied).
C5_ExpectedValueFromOutside ==
    \A i \in 1..Len(circuit) :
        IsExpectedValue(circuit[i]) => circuit[i].src # "ejected"

\* The call a circuit entry was made by, while that call's record is kept.
MadeBy(e) == {c \in DOMAIN calls : calls[c].id = e.call}

\* C6: the index fed to the randomizer of a private or record output at position
\* p (from 0) of a request with n inputs is the integer n + p.
C6_IndexIsInputsPlusPosition ==
    \A i \in 1..Len(circuit) :
        circuit[i].role = "output_index" =>
            \A c \in MadeBy(circuit[i]) :
                circuit[i].lhs =
                    <<ToString(Len(calls[c].request.inputs) + calls[c].request.more
                               + (circuit[i].out - 1))>>

RECURSIVE EntriesUpTo(_, _)
EntriesUpTo(call, k) ==
    IF k = 0 THEN <<>>
    ELSE EntriesUpTo(call, k - 1)
         \o OutputEntries(Program[call.request.function_name].outputs[k], call.outputs[k],
                          call.request, call.num_inputs, k, call.id)

\* The circuit an execute call has built so far when it runs alone from an
\* empty environment.
AloneCircuit(call) ==
    IF call.pc = "inject" THEN <<>>
    ELSE RequestEntries(call.request, call.id)
         \o (IF call.outputs = <<>> THEN <<>>
             ELSE <<StackGadget(call.request.function_name, call.id)>>
                  \o EntriesUpTo(call, call.index))

\* An execute call that has passed its reset (running, or returned).
PastReset(call) ==
    /\ call.op = "execute"
    /\ call.pc \in {"inject", "stack", "outputs", "finalize", "done"}
    /\ call.result.error \notin PreconditionErrors

\* C7: concurrent execute calls never share constraint state: the environment of
\* every execute call past its reset holds exactly what that call would have
\* built alone.
C7_IsolatedContexts ==
    \A c \in DOMAIN calls :
        PastReset(calls[c]) => circuit = AloneCircuit(calls[c])

\* A::count(): the numbers of constant, public and private variables and of
\* constraints.
count(env) ==
    [constant |-> Cardinality({i \in 1..Len(env) : env[i].mode = "Constant"}),
     public |-> Cardinality({i \in 1..Len(env) : env[i].mode = "Public"}),
     private |-> Cardinality({i \in 1..Len(env) : env[i].mode = "Private"}),
     constraints |-> Cardinality({i \in 1..Len(env) : env[i].kind = "assert_eq"})]

\* C8 (as amended): with calls run one after another, an execute call that passes
\* its preconditions resets the environment before it adds anything: from then on
\* and when it returns, by success or by a later failure, the environment holds
\* exactly what this call built, so nothing of an earlier call, and its counts
\* depend only on the request, the program and the values the Stack returned. An
\* execute call that fails a precondition returns without touching the
\* environment.
C8_ResetBeforeConstruction ==
    \A c \in DOMAIN calls :
        /\ PastReset(calls[c]) =>
                /\ circuit = AloneCircuit(calls[c])
                /\ \A i \in 1..Len(circuit) : circuit[i].call = calls[c].id
                /\ count(circuit) = count(AloneCircuit(calls[c]))
        /\ (calls[c].op = "execute" /\ calls[c].result.error \in PreconditionErrors) =>
                circuit = calls[c].at_entry

\* A call of execute that found the constraints of an earlier call in the
\* environment and has returned its outputs.
C8_Witness ==
    \E c \in DOMAIN calls :
        /\ calls[c].id = 2
        /\ calls[c].op = "execute"
        /\ calls[c].pc = "done"
        /\ calls[c].result.ok
        /\ Len(calls[c].at_entry) > 0
        /\ \A i \in 1..Len(circuit) : circuit[i].call = 2

\* C8 as stated: when a call of execute returns, having succeeded or failed, the
\* environment holds nothing an earlier call created.
C8_Original ==
    \A c \in DOMAIN calls :
        (calls[c].op = "execute" /\ calls[c].pc = "done") =>
            \A i \in 1..Len(circuit) : circuit[i].call = calls[c].id

\* The kind of element at each position of verifier_inputs(): the id, then the
\* checksum.
VerifierInputKinds(o) ==
    [i \in 1..Len(verifier_inputs(o)) |-> IF i = 1 THEN "id" ELSE "checksum"]

\* The kinds of the public expected values execute injects for the output at
\* position `out` of the call with id `call`, in order; a hash and a commitment
\* are the output's id.
RECURSIVE PublicKinds(_, _, _)
PublicKinds(env, out, call) ==
    IF env = <<>> THEN <<>>
    ELSE LET e == Head(env)
             kind == IF e.role \in {"hash", "commitment"} THEN "id" ELSE e.role
         IN (IF IsExpectedValue(e) /\ e.mode = "Public" /\ e.out = out /\ e.call = call
             THEN <<kind>> ELSE <<>>)
            \o PublicKinds(Tail(env), out, call)

\* C10: for every output, verifier_inputs() matches, element for element and in
\* order, the public expected values execute injects and asserts for an output
\* of that type.
C10_VerifierInputsMatchCircuit ==
    \A c \in DOMAIN calls :
        (calls[c].op = "execute" /\ calls[c].pc \in {"outputs", "finalize", "done"}) =>
            \A out \in 1..calls[c].index :
                \A o \in Outputs :
                    o.variant = Program[calls[c].request.function_name].outputs[out] =>
                        VerifierInputKinds(o) = PublicKinds(circuit, out, calls[c].id)

\* The values a finished call returned: the outputs of execute, the outputs
\* held by the Response of evaluate.
Returned(call) ==
    IF call.op = "execute" THEN call.result.value ELSE call.result.value[1].outputs

ExecuteSucceeded(call) == call.pc = "done" /\ call.op = "execute" /\ call.result.ok

\* The circuit holds an assertion of the given role made by the call for the
\* output at position out.
Asserted(role, out, call) ==
    \E i \in 1..Len(circuit) :
        /\ circuit[i].kind = "assert_eq"
        /\ circuit[i].role = role
        /\ circuit[i].out = out
        /\ circuit[i].call = call.id

\* C15: after a successful execute of a function with k declared outputs the
\* trace holds exactly k leaves in declared output order: the hash of the output
\* for a Constant or Public output, the commitment of the output for a Private or
\* Record output; the nonce and the checksum of a Record output are asserted in
\* the circuit and are no leaf of the trace.
C15_TraceLeaves ==
    \A c \in DOMAIN calls :
        ExecuteSucceeded(calls[c]) =>
            LET call == calls[c]
                types == Program[call.request.function_name].outputs
                leaves == call.trace.leaves
            IN  /\ Len(leaves) = Len(types)
                /\ \A i \in 1..Len(types) :
                       LET value == call.outputs[i]
                           randomizer == Randomizer(call.request, call.num_inputs, i - 1)
                       IN  /\ types[i] \in {"Constant", "Public"} =>
                                  leaves[i] = hash_bhp1024(Bits(value))
                           /\ types[i] = "Private" =>
                                  leaves[i] = commit_bhp1024(Bits(value), randomizer)
                           /\ types[i] = "Record" =>
                                  /\ leaves[i] = to_commitment(value, randomizer)
                                  /\ Asserted("nonce", i, call)
                                  /\ Asserted("checksum", i, call)
                                  /\ \A j \in 1..Len(leaves) :
                                         /\ leaves[j] # g_scalar_multiply_x(randomizer)
                                         /\ leaves[j] # hash_bhp1024(encrypt(value, randomizer))

\* A successful execute of compute: four leaves, the first the commitment of
\* the record.
C15_Witness ==
    \E c \in DOMAIN calls :
        /\ ExecuteSucceeded(calls[c])
        /\ calls[c].request.function_name = "compute"
        /\ Len(calls[c].trace.leaves) = 4
        /\ calls[c].trace.leaves[1] =
               to_commitment(calls[c].outputs[1],
                             Randomizer(calls[c].request, calls[c].num_inputs, 0))
        /\ Asserted("nonce", 1, calls[c])

\* The number of positions of ops that hold op.
Occurrences(ops, op) == Cardinality({i \in 1..Len(ops) : ops[i] = op})

\* C16: in every run of execute the trace operations are New, then add_output
\* once per output processed so far, then finalize: finalize is called at most
\* once, as the last operation and only after an add_output for every declared
\* output; a call that returned successfully has finalized its trace; a call
\* that failed on a plaintext-shaped value for a Record output (TypeMismatch)
\* has never called finalize and returned no outputs.
C16_TraceProtocol ==
    \A c \in DOMAIN calls :
        calls[c].op = "execute" =>
            LET call == calls[c]
                ops == call.trace.ops
                k == Len(Program[call.request.function_name].outputs)
            IN  /\ call.trace.ok
                /\ Len(ops) > 0 => ops[1] = "new"
                /\ Occurrences(ops, "new") <= 1
                /\ Occurrences(ops, "finalize") <= 1
                /\ Occurrences(ops, "add_output") = call.index
                /\ \A i \in 1..Len(ops) :
                       ops[i] = "finalize" =>
                           /\ i = Len(ops)
                           /\ Occurrences(ops, "add_output") = k
                /\ call.result.ok =>
                       /\ ops[Len(ops)] = "finalize"
                       /\ Len(ops) = k + 2
                /\ (call.result.returned /\ call.result.error = TypeMismatch) =>
                       /\ Occurrences(ops, "finalize") = 0
                       /\ ~call.result.ok
                       /\ call.result.value = <<>>

\* execute of compute failed with TypeMismatch on its record output: the trace
\* was created and never finalized.
C16_Witness ==
    \E c \in DOMAIN calls :
        /\ calls[c].op = "execute"
        /\ calls[c].pc = "done"
        /\ calls[c].result.error = TypeMismatch
        /\ calls[c].trace.ops = <<"new">>

(***************************************************************************)
(* Properties of the output model.                                         *)
(***************************************************************************)

\* C9 (as amended): verifier_inputs() yields the id first, followed by the
\* checksum if and only if the output is a Record variant, with or without its
\* payload; for every other variant it yields exactly the id.
C9_VerifierInputs ==
    observed.method = "verifier_inputs" =>
        observed.value = IF output.variant = "Record"
                         THEN <<output.id, output.checksum>>
                         ELSE <<output.id>>

\* verifier_inputs() applied to a Record whose payload is absent.
C9_Witness ==
    /\ observed.method = "verifier_inputs"
    /\ output.variant = "Record"
    /\ output.value = NoValue
    /\ Len(observed.value) = 2

\* C9 as stated: the checksum follows if and only if the output is a Record
\* whose payload is present.
C9_Original ==
    observed.method = "verifier_inputs" =>
        observed.value = IF output.variant = "Record" /\ output.value # NoValue
                         THEN <<output.id, output.checksum>>
                         ELSE <<output.id>>

\* The accessors that read the record payload, and those that read only the
\* commitment or the checksum stored beside it.
PayloadAccessors == {"record", "into_record", "nonce", "into_nonce"}
ReferenceAccessors == {"commitment", "into_commitment", "checksum", "into_checksum"}

\* C11 (as amended): record, nonce and their into_ forms return a value only
\* for a Record whose payload is present; commitment, checksum and their into_
\* forms return a value for every Record, with or without its payload; every
\* accessor returns None for every non-Record variant.
C11_RecordAccessors ==
    /\ observed.method \in PayloadAccessors =>
           (observed.value # NoValue
               <=> (output.variant = "Record" /\ output.value # NoValue))
    /\ observed.method \in ReferenceAccessors =>
           (observed.value # NoValue <=> output.variant = "Record")
    /\ observed.method \in {"commitment", "into_commitment"} /\ observed.value # NoValue
           => observed.value = Some(output.id)
    /\ observed.method \in {"checksum", "into_checksum"} /\ observed.value # NoValue
           => observed.value = Some(output.checksum)
    /\ observed.method \in {"record", "into_record"} /\ observed.value # NoValue
           => observed.value = Some(<<output.id, output.value[1]>>)

\* commitment() applied to a Record whose payload was stripped returns the
\* commitment.
C11_Witness ==
    /\ observed.method = "commitment"
    /\ output.variant = "Record"
    /\ output.value = NoValue
    /\ observed.value = Some(output.id)

\* C11 as stated: every Record-specific accessor returns a value only for a
\* Record whose payload is present.
C11_Original ==
    observed.method \in PayloadAccessors \cup ReferenceAccessors =>
        (observed.value # NoValue
            <=> (output.variant = "Record" /\ output.value # NoValue))

\* The field the payload hash is compared with: the checksum of a Record, the
\* id of every other variant.
StoredHash(o) == IF o.variant = "Record" THEN o.checksum ELSE o.id

====
